---- MODULE Spec2Model ----
(***************************************************************************)
(* goFish: the scan / filter / pair / process loop of findFish's main()    *)
(* (sequential build and THREADED build) and the Box storage client of     *)
(* goServer (RequestAccessToken, HTTPRequest, UploadFile).                 *)
(*                                                                         *)
(* File names are sequences of one-character strings, so that find,        *)
(* substr, find_last_of and the lexicographic order of std::sort are       *)
(* computed on the characters.                                             *)
(***************************************************************************)
EXTENDS Integers, Sequences, FiniteSets, TLC

(* ---------------------------------------------------------------------- *)
(* Bounds                                                                  *)
(* ---------------------------------------------------------------------- *)
\* largest number of entries of static/videos/ at start-up
MaxVideos == 6
\* largest number of entries of static/video-info/ at start-up
MaxJson == 2

(* ---------------------------------------------------------------------- *)
(* std::string                                                             *)
(* ---------------------------------------------------------------------- *)
\* the characters in use, in ASCII order
Alphabet ==
  << "-", ".", "/", "4",
     "A", "B", "C", "D", "E", "F", "G", "H", "J", "L", "M", "N", "O", "P",
     "R", "S", "_",
     "a", "c", "d", "e", "f", "i", "j", "m", "n", "o", "p", "s", "t", "v" >>

Code == [c \in {Alphabet[k] : k \in 1..Len(Alphabet)} |->
           CHOOSE k \in 1..Len(Alphabet) : Alphabet[k] = c]

\* std::string::npos, as the signed value of size_t(-1)
NPOS == -1

\* (size_t arithmetic: npos + 3 wraps around to 2, which is NPOS + 3 here)

\* s.find(t): position (from 0) of the first occurrence of t in s, or npos
Find(s, t) ==
  LET hits == {q \in 0..(Len(s) - Len(t)) : SubSeq(s, q + 1, q + Len(t)) = t}
  IN  IF hits = {} THEN NPOS ELSE CHOOSE q \in hits : \A r \in hits : q <= r

\* s.find_last_of(c): position of the last occurrence of the character c
FindLastOf(s, c) ==
  LET hits == {q \in 0..(Len(s) - 1) : s[q + 1] = c}
  IN  IF hits = {} THEN NPOS ELSE CHOOSE q \in hits : \A r \in hits : q >= r

\* s.substr(pos, n): at most n characters from pos; n = npos means the rest
Substr(s, pos, n) ==
  LET last == IF n = NPOS \/ pos + n > Len(s) THEN Len(s) ELSE pos + n
  IN  SubSeq(s, pos + 1, last)

\* operator< of std::string: lexicographic on the character codes
StrLess(a, b) ==
  LET m == IF Len(a) < Len(b) THEN Len(a) ELSE Len(b)
      diff == {k \in 1..m : a[k] # b[k]}
  IN  IF diff = {} THEN Len(a) < Len(b)
      ELSE LET k == CHOOSE x \in diff : \A y \in diff : x <= y
           IN  Code[a[k]] < Code[b[k]]

\* std::sort(v.begin(), v.end())
Sort(v) == SortSeq(v, StrLess)

\* the elements of a sequence
Range(v) == {v[k] : k \in 1..Len(v)}

(* ---------------------------------------------------------------------- *)
(* The two directories                                                     *)
(* ---------------------------------------------------------------------- *)
VIDEO_DIR == << "s", "t", "a", "t", "i", "c", "/", "v", "i", "d", "e", "o", "s", "/" >>
JSON_DIR == << "s", "t", "a", "t", "i", "c", "/", "v", "i", "d", "e", "o", "-",
               "i", "n", "f", "o", "/" >>

vid_filters == << << ".", "m", "p", "4" >>, << ".", "M", "P", "4" >> >>
json_filters == << << ".", "j", "s", "o", "n" >>, << ".", "J", "S", "O", "N" >> >>

Upper == << "A", "B", "C", "D", "E", "F", "G", "H" >>

\* the k-th recording: AL.mp4 AR.mp4 BL.MP4 BR.mp4 CL.mp4 CR.MP4 ...
VideoEntry(k) ==
  << Upper[(k + 1) \div 2], IF k % 2 = 1 THEN "L" ELSE "R" >>
    \o (IF k % 3 = 0 THEN vid_filters[2] ELSE vid_filters[1])

\* the k-th artifact: DE_A.json DE_BL.JSON DE_C.json DE_DL.JSON ...
\* (DE_A names both AL and AR, DE_BL names BL only)
JsonEntry(k) ==
  << "D", "E", "_" >>
    \o (IF k % 2 = 1 THEN << Upper[k] >> ELSE << Upper[k], "L" >>)
    \o (IF k % 2 = 1 THEN json_filters[1] ELSE json_filters[2])

VideoEntries == {VideoEntry(k) : k \in 1..MaxVideos}
JsonEntries == {JsonEntry(k) : k \in 1..MaxJson}

\* every order in which readdir may return the entries of a directory
RECURSIVE Orders(_)
Orders(S) ==
  IF S = {} THEN {<< >>}
  ELSE UNION {{<< e >> \o o : o \in Orders(S \ {e})} : e \in S}

\* the filter loop over one directory entry
RECURSIVE MatchFilters(_, _, _, _)
MatchFilters(dir, name, filters, k) ==
  IF k > Len(filters) THEN << >>
  ELSE (IF name # << "." >> /\ name # << ".", "." >>
           /\ Find(name, filters[k]) # NPOS
        THEN << dir \o name >> ELSE << >>)
       \o MatchFilters(dir, name, filters, k + 1)

\* GetVideosFromDir over the entries in readdir order
RECURSIVE GetVideosFromDir(_, _, _)
GetVideosFromDir(dir, listing, filters) ==
  IF listing = << >> THEN << >>
  ELSE MatchFilters(dir, Head(listing), filters, 1)
       \o GetVideosFromDir(dir, Tail(listing), filters)

\* what readdir returns: ".", ".." and the entries in some order
Listing(order) == << << "." >>, << ".", "." >> >> \o order

(* ---------------------------------------------------------------------- *)
(* main(): the exclusion of already processed videos                       *)
(* ---------------------------------------------------------------------- *)
\* jf: the artifact name after "DE_", without its extension
Ident(jfile) ==
  LET jf == Substr(jfile, Find(jfile, << "D", "E", "_" >>) + 3, Len(jfile))
  IN  Substr(jf, 0, FindLastOf(jf, "."))

\* the inner loop: erase the first video whose name contains jf, then break
EraseFirst(videos, jf) ==
  LET hits == {k \in 1..Len(videos) : Find(videos[k], jf) # NPOS}
  IN  IF hits = {} THEN videos
      ELSE LET m == CHOOSE k \in hits : \A r \in hits : k <= r
           IN  SubSeq(videos, 1, m - 1) \o SubSeq(videos, m + 1, Len(videos))

\* the outer loop over json_files, from its k-th element (the list and the
\* identifier are bound to their values before the next round uses them)
RECURSIVE Exclude(_, _, _)
Exclude(videos, jsons, k) ==
  IF k > Len(jsons) THEN videos
  ELSE CHOOSE r \in {Exclude(EraseFirst(v, jf), jsons, k + 1) :
                        v \in {videos}, jf \in {Ident(jsons[k])}} : TRUE

(* ---------------------------------------------------------------------- *)
(* main(): the pairing loops                                               *)
(* ---------------------------------------------------------------------- *)
\* (variant: the loop runs over every index of the list)
LoopCondAll(idx, n) == idx < n

\* the loop condition of both pairing loops
LoopCond(idx, n) == idx < n \div 2

\* the index of the second video of a pair
SecondIndex(idx, n) == (idx + 1) % n

\* the increment of the sequential loop, and of the THREADED loop
SeqStep(idx) == idx + 2
ThrStep(idx) == idx + 1

\* (variant: the sources are removed whatever Success says)
ShouldRemoveAlways(proc) == TRUE

\* the condition under which the sequential loop removes the two sources
ShouldRemove(proc) == proc.Success

\* (variant: the handler encloses the whole loop, a throw leaves the loop)
OnThrowLeaveLoop == "while"

\* where control goes when a job of the sequential loop throws: the catch
\* clause is the end of the loop body, the for increment follows
OnThrow == "seq_inc"

\* (variant: the threads are not waited for)
JoinReturnsAlways(job) == TRUE

\* std::thread::join returns once the thread's function has returned
JoinReturns(job) == job.state \in {"ok", "fail"}

\* (variant: the THREADED branch is compiled whatever the switch says)
DispatchThreaded(threaded) == "thr_resize"

\* #ifdef THREADED ... #else ... #endif: the branch that is compiled
Dispatch(threaded) == IF threaded THEN "thr_resize" ELSE "seq_for"

\* the guard of the removal loop of the THREADED build
ThrShouldRemove(n) == n > 1

(* ---------------------------------------------------------------------- *)
(* main(): state                                                           *)
(* ---------------------------------------------------------------------- *)
VARIABLES
  THREADED,     \* the compile-time switch of line 17
  videoDir,     \* the entries of static/videos/ on disk
  jsonDir,      \* the entries of static/video-info/ on disk
  pc,           \* the position of main
  bHasVideos,
  video_files,
  json_files,
  i,            \* the index of the pairing loop
  p,            \* the Processor under construction or at work
  threads,      \* the vector of std::thread
  it,           \* the position of the range-for loops of the THREADED build
  jobs,         \* the jobs of this batch iteration, in creation order
  removed       \* the paths given to std::remove in this batch iteration

mainVars == << THREADED, videoDir, jsonDir, pc, bHasVideos, video_files,
               json_files, i, p, threads, it, jobs, removed >>

\* the Box object of goServer and the call of UploadFile in progress
VARIABLES
  accessToken,  \* box.accessToken
  bpc,          \* the position of the call of UploadFile
  call,         \* the arguments and the environment of the call
  tokErr,       \* the error RequestAccessToken returned to this call
  contents,     \* the bytes placed in the multipart body
  reqs,         \* the HTTP requests this call has issued, in order
  status,       \* the status of the response to the upload request, or 0
  ret,          \* the error the call returned: "nil", "err", or "none" yet
  tokStatus,    \* the status of the token response this call received, or 0
  tokBefore,    \* box.accessToken when this call entered RequestAccessToken
  sentWith,     \* box.accessToken at the time of each request of reqs
  lastGood      \* the token stored by the last RequestAccessToken that
                \* returned nil ("" when none has)

boxVars == << accessToken, bpc, call, tokErr, contents, reqs, status, ret,
              tokStatus, tokBefore, sentWith, lastGood >>

(* ---------------------------------------------------------------------- *)
(* EventDetector.h: the state of one detector and of its two threads       *)
(* ---------------------------------------------------------------------- *)
\* dkind:   "Marker" (QREvent), "Activity" (ActivityEvent), "none"
\* dstate:  Idle, Active or Closed
\* _start_frame, _end_frame, payload, id_: the members of the detector
\* _mutex:  "free", or the thread that holds it
\* misses:  consecutive frames without a detection since the last one
\* cursor:  the global frame cursor; input: what the frame at the cursor
\*          holds ("hit": a code decodes, "miss", "eos": the stream ended)
\* spc, op: the scanning thread's position and the call it is making
\* derr:    the error the last call raised
\* rpc, racc, robs, rcur: the reporting thread's position, the accessor it
\*          calls, what the accessor returned and the cursor it read
\* firstDet, runLast, external: history of the stream: the first frame
\*          that held a code, the last one fed to the detector before it
\*          closed, and whether EndEvent was called from outside
\*          CheckFrame
VARIABLES dkind, dstate, _start_frame, _end_frame, payload, id_, _mutex,
          misses, cursor, input, spc, op, derr, rpc, racc, robs, rcur,
          firstDet, runLast, external

detVars == << dkind, dstate, _start_frame, _end_frame, payload, id_, _mutex,
              misses, cursor, input, spc, op, derr, rpc, racc, robs, rcur,
              firstDet, runLast, external >>

vars == << mainVars, boxVars, detVars >>

NoProc == [a |-> << >>, b |-> << >>, Success |-> FALSE]

\* the directory entry of a path of static/videos/
EntryOf(path) == Substr(path, Len(VIDEO_DIR), NPOS)

MainInit ==
  /\ THREADED \in BOOLEAN
  /\ videoDir \in SUBSET VideoEntries
  /\ jsonDir \in SUBSET JsonEntries
  /\ pc = "scan"
  /\ bHasVideos = FALSE
  /\ video_files = << >>
  /\ json_files = << >>
  /\ i = 0
  /\ p = NoProc
  /\ threads = << >>
  /\ it = 0
  /\ jobs = << >>
  /\ removed = {}

\* main() with no video, no artifact and the default build
MainIdle ==
  /\ THREADED = FALSE
  /\ videoDir = {}
  /\ jsonDir = {}
  /\ pc = "scan"
  /\ bHasVideos = FALSE
  /\ video_files = << >>
  /\ json_files = << >>
  /\ i = 0
  /\ p = NoProc
  /\ threads = << >>
  /\ it = 0
  /\ jobs = << >>
  /\ removed = {}

\* a Processor built on the pair selected by index i
NewProc == [a |-> video_files[i + 1],
            b |-> video_files[SecondIndex(i, Len(video_files)) + 1],
            Success |-> FALSE]

\* the record of the job of index i
NewJob(st) == [first |-> i, second |-> SecondIndex(i, Len(video_files)),
               a |-> video_files[i + 1],
               b |-> video_files[SecondIndex(i, Len(video_files)) + 1],
               state |-> st, finished |-> FALSE]

\* std::remove(path)
Remove(dir, path) == dir \ {EntryOf(path)}

(* ---------------------------------------------------------------------- *)
(* main(): lines 66-89, common to both builds                              *)
(* ---------------------------------------------------------------------- *)
\* lines 66-72: list static/videos/, sort, stop when there is no video
Scan ==
  /\ pc = "scan"
  /\ \E vf \in {Sort(GetVideosFromDir(VIDEO_DIR, Listing(order), vid_filters)) :
                  order \in Orders(videoDir)} :
       /\ video_files' = vf
       /\ bHasVideos' = (vf # << >>)
       /\ pc' = IF vf = << >> THEN "done" ELSE "filter"
  /\ json_files' = << >>
  /\ i' = 0
  /\ p' = NoProc
  /\ threads' = << >>
  /\ it' = 0
  /\ jobs' = << >>
  /\ removed' = {}
  /\ UNCHANGED << boxVars, detVars, THREADED, videoDir, jsonDir >>

\* lines 74-91: list static/video-info/, exclude, sort again
Filter ==
  /\ pc = "filter"
  /\ \E jf \in {GetVideosFromDir(JSON_DIR, Listing(order), json_filters) :
                  order \in Orders(jsonDir)} :
       /\ json_files' = jf
       /\ video_files' = Sort(Exclude(video_files, jf, 1))
  /\ pc' = Dispatch(THREADED)
  /\ UNCHANGED << boxVars, detVars, THREADED, videoDir, jsonDir, bHasVideos, i, p, threads, it,
                  jobs, removed >>

\* line 130: while (bHasVideos)
While ==
  /\ pc = "while"
  /\ pc' = IF bHasVideos THEN "scan" ELSE "done"
  /\ UNCHANGED << boxVars, detVars, THREADED, videoDir, jsonDir, bHasVideos, video_files,
                  json_files, i, p, threads, it, jobs, removed >>

(* ---------------------------------------------------------------------- *)
(* main(): lines 111-126, the sequential build                             *)
(* ---------------------------------------------------------------------- *)
\* line 111: the loop condition
SeqFor ==
  /\ pc = "seq_for"
  /\ pc' = IF LoopCond(i, Len(video_files)) THEN "seq_ctor" ELSE "while"
  /\ UNCHANGED << boxVars, detVars, THREADED, videoDir, jsonDir, bHasVideos, video_files,
                  json_files, i, p, threads, it, jobs, removed >>

\* line 114: Processor p(video_files[i], video_files[(i + 1) % size]),
\* which throws when a source cannot be opened
SeqConstruct ==
  /\ pc = "seq_ctor"
  /\ \E opened \in BOOLEAN :
       IF opened
       THEN /\ p' = NewProc
            /\ jobs' = Append(jobs, NewJob("constructed"))
            /\ pc' = "seq_process"
       ELSE /\ p' = NoProc
            /\ jobs' = Append(jobs, [NewJob("ctor_throw") EXCEPT !.finished = TRUE])
            /\ pc' = OnThrow
  /\ UNCHANGED << boxVars, detVars, THREADED, videoDir, jsonDir, bHasVideos, video_files,
                  json_files, i, threads, it, removed >>

\* line 115: p.ProcessVideos(), which sets Success or throws
SeqProcess ==
  /\ pc = "seq_process"
  /\ \E out \in {"ok", "fail", "process_throw"} :
       /\ jobs' = [jobs EXCEPT ![Len(jobs)].state = out,
                               ![Len(jobs)].finished = (out = "process_throw")]
       /\ IF out = "process_throw"
          THEN p' = NoProc /\ pc' = OnThrow
          ELSE p' = [p EXCEPT !.Success = (out = "ok")] /\ pc' = "seq_remove"
  /\ UNCHANGED << boxVars, detVars, THREADED, videoDir, jsonDir, bHasVideos, video_files,
                  json_files, i, threads, it, removed >>

\* lines 117-121: remove the two sources of a successful job
SeqRemove ==
  /\ pc = "seq_remove"
  /\ IF ShouldRemove(p)
     THEN /\ videoDir' = Remove(Remove(videoDir, p.a), p.b)
          /\ removed' = removed \cup {p.a, p.b}
     ELSE UNCHANGED << videoDir, removed >>
  /\ jobs' = [jobs EXCEPT ![Len(jobs)].finished = TRUE]
  /\ p' = NoProc
  /\ pc' = "seq_inc"
  /\ UNCHANGED << boxVars, detVars, THREADED, jsonDir, bHasVideos, video_files, json_files, i,
                  threads, it >>

\* line 111: i += 2
SeqInc ==
  /\ pc = "seq_inc"
  /\ i' = SeqStep(i)
  /\ pc' = "seq_for"
  /\ UNCHANGED << boxVars, detVars, THREADED, videoDir, jsonDir, bHasVideos, video_files,
                  json_files, p, threads, it, jobs, removed >>

(* ---------------------------------------------------------------------- *)
(* main(): lines 94-109, the THREADED build                                *)
(* ---------------------------------------------------------------------- *)
\* lines 94-95: one default-constructed std::thread per video
ThrResize ==
  /\ pc = "thr_resize"
  /\ threads' = [k \in 1..Len(video_files) |-> "empty"]
  /\ i' = 0
  /\ pc' = "thr_for"
  /\ UNCHANGED << boxVars, detVars, THREADED, videoDir, jsonDir, bHasVideos, video_files,
                  json_files, p, it, jobs, removed >>

\* line 96: the loop condition
ThrFor ==
  /\ pc = "thr_for"
  /\ pc' = IF LoopCond(i, Len(video_files)) THEN "thr_new" ELSE "thr_join"
  /\ it' = 0
  /\ UNCHANGED << boxVars, detVars, THREADED, videoDir, jsonDir, bHasVideos, video_files,
                  json_files, i, p, threads, jobs, removed >>

\* line 99: new Processor(...); no handler encloses it, so an exception of
\* the constructor reaches std::terminate (SIGABRT, HandleSignal, exit)
ThrNew ==
  /\ pc = "thr_new"
  /\ \E opened \in BOOLEAN :
       IF opened
       THEN /\ p' = NewProc
            /\ jobs' = jobs
            /\ pc' = "thr_spawn"
       ELSE /\ p' = NoProc
            /\ jobs' = Append(jobs, NewJob("ctor_throw"))
            /\ pc' = "terminated"
  /\ UNCHANGED << boxVars, detVars, THREADED, videoDir, jsonDir, bHasVideos, video_files,
                  json_files, i, threads, it, removed >>

\* line 100 and the increment of line 96: the thread of job i starts
ThrSpawn ==
  /\ pc = "thr_spawn"
  /\ threads' = [threads EXCEPT ![i + 1] = "joinable"]
  /\ jobs' = Append(jobs, NewJob("running"))
  /\ p' = NoProc
  /\ i' = ThrStep(i)
  /\ pc' = "thr_for"
  /\ UNCHANGED << boxVars, detVars, THREADED, videoDir, jsonDir, bHasVideos, video_files,
                  json_files, it, removed >>

\* Processor::ProcessVideos on the thread of job k: it returns with Success
\* set or not, or throws, and an exception leaving a thread function reaches
\* std::terminate
ThreadRun(k) ==
  /\ pc \notin {"terminated", "done"}
  /\ k \in 1..Len(jobs)
  /\ jobs[k].state = "running"
  /\ \E out \in {"ok", "fail", "process_throw"} :
       /\ jobs' = [jobs EXCEPT ![k].state = out,
                               ![k].finished = (out # "process_throw")]
       /\ pc' = IF out = "process_throw" THEN "terminated" ELSE pc
  /\ UNCHANGED << boxVars, detVars, THREADED, videoDir, jsonDir, bHasVideos, video_files,
                  json_files, i, p, threads, it, removed >>

\* lines 103-104: join every joinable thread, in order
ThrJoin ==
  /\ pc = "thr_join"
  /\ IF it < Len(threads)
     THEN IF threads[it + 1] = "joinable"
          THEN /\ JoinReturns(jobs[it + 1])
               /\ threads' = [threads EXCEPT ![it + 1] = "joined"]
               /\ it' = it + 1
               /\ pc' = pc
          ELSE /\ it' = it + 1
               /\ UNCHANGED << threads, pc >>
     ELSE /\ pc' = "thr_if"
          /\ UNCHANGED << threads, it >>
  /\ UNCHANGED << boxVars, detVars, THREADED, videoDir, jsonDir, bHasVideos, video_files,
                  json_files, i, p, jobs, removed >>

\* line 107: if (video_files.size() > 1)
ThrIf ==
  /\ pc = "thr_if"
  /\ pc' = IF ThrShouldRemove(Len(video_files)) THEN "thr_remove" ELSE "while"
  /\ it' = 0
  /\ UNCHANGED << boxVars, detVars, THREADED, videoDir, jsonDir, bHasVideos, video_files,
                  json_files, i, p, threads, jobs, removed >>

\* lines 108-109: std::remove of every video of the list
ThrRemove ==
  /\ pc = "thr_remove"
  /\ IF it < Len(video_files)
     THEN /\ videoDir' = Remove(videoDir, video_files[it + 1])
          /\ removed' = removed \cup {video_files[it + 1]}
          /\ it' = it + 1
          /\ pc' = pc
     ELSE /\ pc' = "while"
          /\ UNCHANGED << videoDir, removed, it >>
  /\ UNCHANGED << boxVars, detVars, THREADED, jsonDir, bHasVideos, video_files, json_files, i,
                  p, threads, jobs >>

(* ---------------------------------------------------------------------- *)
(* goServer: the Box client                                                *)
(* ---------------------------------------------------------------------- *)
\* the access tokens the authorization endpoint hands out
Tokens == {"t1", "t2"}

\* what the network does with a request: a transport error, or a response
\* with a status and a body; a body is a token response, a JSON object
\* without access_token (an OAuth error object), or not JSON at all
Replies ==
  {[transport |-> FALSE, status |-> 0, body |-> "none"]}
  \cup {[transport |-> TRUE, status |-> 200, body |-> t] : t \in Tokens}
  \cup {[transport |-> TRUE, status |-> 200, body |-> "json"],
        [transport |-> TRUE, status |-> 400, body |-> "json"],
        [transport |-> TRUE, status |-> 502, body |-> "garbage"]}

\* (variant: the Authorization header is added whatever the token is)
HTTPRequestAlwaysAuth(token, url, urlOk, reply) ==
  IF ~urlOk
  THEN [sent |-> FALSE, req |-> [url |-> url, auth |-> << >>],
        err |-> TRUE, body |-> "none", status |-> 0]
  ELSE LET req == [url |-> url, auth |-> << "Bearer", token >>]
       IN  IF ~reply.transport
           THEN [sent |-> TRUE, req |-> req, err |-> TRUE, body |-> "none",
                 status |-> 0]
           ELSE [sent |-> TRUE, req |-> req, err |-> FALSE,
                 body |-> reply.body, status |-> reply.status]

\* HTTPRequest: the request it sends (if any), and what it returns.
\* urlOk: http.NewRequest accepts the method and the URL.
\* The Authorization header of the request is << >> when absent.
HTTPRequest(token, url, urlOk, reply) ==
  IF ~urlOk
  THEN [sent |-> FALSE, req |-> [url |-> url, auth |-> << >>],
        err |-> TRUE, body |-> "none", status |-> 0]
  ELSE LET req == [url |-> url,
                   auth |-> IF token # "" THEN << "Bearer", token >> ELSE << >>]
       IN  IF ~reply.transport
           THEN [sent |-> TRUE, req |-> req, err |-> TRUE, body |-> "none",
                 status |-> 0]
           ELSE [sent |-> TRUE, req |-> req, err |-> FALSE,
                 body |-> reply.body, status |-> reply.status]

\* json.Unmarshal(response, &ar): the error, and ar.AccessToken
UnmarshalAccess(body) ==
  IF body \in Tokens THEN [err |-> FALSE, AccessToken |-> body]
  ELSE IF body = "json" THEN [err |-> FALSE, AccessToken |-> ""]
  ELSE [err |-> TRUE, AccessToken |-> ""]

\* the stages of RequestAccessToken that fail without the network
LocalFailures == {"none", "config", "rand", "key", "sign"}

\* (variant: the token is stored before the decoding error is looked at)
RequestAccessTokenEager(token, local, reply) ==
  IF local # "none"
  THEN [err |-> TRUE, accessToken |-> token, reqs |-> << >>, status |-> 0]
  ELSE LET h == HTTPRequest(token, "auth", TRUE, reply)
           ar == UnmarshalAccess(h.body)
       IN  IF h.err
           THEN [err |-> TRUE, accessToken |-> token, reqs |-> << h.req >>,
                 status |-> h.status]
           ELSE [err |-> ar.err, accessToken |-> ar.AccessToken,
                 reqs |-> << h.req >>, status |-> h.status]

\* RequestAccessToken: local is the first local stage that fails ("none":
\* the config is read and decoded, the key decrypted, the assertion signed)
RequestAccessToken(token, local, reply) ==
  IF local # "none"
  THEN [err |-> TRUE, accessToken |-> token, reqs |-> << >>, status |-> 0]
  ELSE LET h == HTTPRequest(token, "auth", TRUE, reply)
           ar == UnmarshalAccess(h.body)
       IN  IF h.err
           THEN [err |-> TRUE, accessToken |-> token, reqs |-> << h.req >>,
                 status |-> h.status]
           ELSE IF ar.err
           THEN [err |-> TRUE, accessToken |-> token, reqs |-> << h.req >>,
                 status |-> h.status]
           ELSE [err |-> FALSE, accessToken |-> ar.AccessToken,
                 reqs |-> << h.req >>, status |-> h.status]

NoCall == [kind |-> "none", opened |-> FALSE, readable |-> FALSE,
           urlOk |-> FALSE]

BoxInit ==
  /\ accessToken = ""
  /\ bpc = "idle"
  /\ call = NoCall
  /\ tokErr = FALSE
  /\ contents = "none"
  /\ reqs = << >>
  /\ status = 0
  /\ ret = "none"
  /\ tokStatus = 0
  /\ tokBefore = ""
  /\ sentWith = << >>
  /\ lastGood = ""

\* a call of UploadFile: file is a path (kind "string") or the bytes
\* themselves (kind "bytes"); opened, readable: os.Open and ioutil.ReadAll
\* succeed on the path; urlOk: newName and folderID make a valid URL
UploadCall ==
  /\ bpc = "idle"
  /\ \E kind \in {"string", "bytes"}, opened, readable, urlOk \in BOOLEAN :
       /\ kind = "bytes" => opened /\ readable
       /\ ~opened => ~readable
       /\ call' = [kind |-> kind, opened |-> opened, readable |-> readable,
                   urlOk |-> urlOk]
  /\ bpc' = "up_token"
  /\ tokErr' = FALSE
  /\ contents' = "none"
  /\ reqs' = << >>
  /\ status' = 0
  /\ ret' = "none"
  /\ tokStatus' = 0
  /\ tokBefore' = accessToken
  /\ sentWith' = << >>
  /\ UNCHANGED << accessToken, lastGood, mainVars, detVars >>

\* line 335: box.RequestAccessToken(), its error dropped
UploadToken ==
  /\ bpc = "up_token"
  /\ \E local \in LocalFailures, reply \in Replies :
       LET r == RequestAccessToken(accessToken, local, reply)
       IN  /\ accessToken' = r.accessToken
           /\ tokErr' = r.err
           /\ reqs' = reqs \o r.reqs
           /\ tokStatus' = r.status
           /\ sentWith' = sentWith \o [k \in 1..Len(r.reqs) |-> accessToken]
           /\ lastGood' = IF r.err THEN lastGood ELSE r.accessToken
  /\ bpc' = "up_read"
  /\ UNCHANGED << call, contents, status, ret, tokBefore, mainVars, detVars >>

\* lines 337-382: the contents of the file (none when it cannot be opened
\* or read: the errors are logged), wrapped in a multipart body
UploadRead ==
  /\ bpc = "up_read"
  /\ contents' = IF call.kind = "bytes" THEN "data"
                 ELSE IF call.opened /\ call.readable THEN "data"
                 ELSE "empty"
  /\ bpc' = "up_post"
  /\ UNCHANGED << accessToken, call, tokErr, reqs, status, ret, tokStatus,
                  tokBefore, sentWith, lastGood, mainVars, detVars >>

\* the result of UploadFile from the result of its HTTPRequest
UploadResult(h) == IF h.err THEN "err" ELSE "nil"

\* lines 384-399: POST to the upload endpoint and return
UploadPost ==
  /\ bpc = "up_post"
  /\ \E reply \in Replies :
       LET h == HTTPRequest(accessToken, "upload", call.urlOk, reply)
       IN  /\ reqs' = IF h.sent THEN Append(reqs, h.req) ELSE reqs
           /\ sentWith' = IF h.sent THEN Append(sentWith, accessToken)
                          ELSE sentWith
           /\ status' = h.status
           /\ ret' = UploadResult(h)
  /\ bpc' = "up_ret"
  /\ UNCHANGED << accessToken, call, tokErr, contents, tokStatus, tokBefore,
                  lastGood, mainVars, detVars >>

\* the caller takes the result; the next call may start
UploadReturn ==
  /\ bpc = "up_ret"
  /\ bpc' = "idle"
  /\ UNCHANGED << accessToken, call, tokErr, contents, reqs, status, ret,
                  tokStatus, tokBefore, sentWith, lastGood, mainVars, detVars >>

\* a call of GetFileInfo; urlOk: fileID makes a valid URL
GetCall ==
  /\ bpc = "idle"
  /\ \E urlOk \in BOOLEAN :
       call' = [kind |-> "info", opened |-> FALSE, readable |-> FALSE,
                urlOk |-> urlOk]
  /\ bpc' = "get_token"
  /\ tokErr' = FALSE
  /\ contents' = "none"
  /\ reqs' = << >>
  /\ status' = 0
  /\ ret' = "none"
  /\ tokStatus' = 0
  /\ tokBefore' = accessToken
  /\ sentWith' = << >>
  /\ UNCHANGED << accessToken, lastGood, mainVars, detVars >>

\* line 404: box.RequestAccessToken(), its error dropped
GetToken ==
  /\ bpc = "get_token"
  /\ \E local \in LocalFailures, reply \in Replies :
       LET r == RequestAccessToken(accessToken, local, reply)
       IN  /\ accessToken' = r.accessToken
           /\ tokErr' = r.err
           /\ reqs' = reqs \o r.reqs
           /\ tokStatus' = r.status
           /\ sentWith' = sentWith \o [k \in 1..Len(r.reqs) |-> accessToken]
           /\ lastGood' = IF r.err THEN lastGood ELSE r.accessToken
  /\ bpc' = "get_req"
  /\ UNCHANGED << call, contents, status, ret, tokBefore, mainVars, detVars >>

\* lines 405-413: GET the file and return
GetRequest ==
  /\ bpc = "get_req"
  /\ \E reply \in Replies :
       LET h == HTTPRequest(accessToken, "file", call.urlOk, reply)
       IN  /\ reqs' = IF h.sent THEN Append(reqs, h.req) ELSE reqs
           /\ sentWith' = IF h.sent THEN Append(sentWith, accessToken)
                          ELSE sentWith
           /\ status' = h.status
           /\ ret' = UploadResult(h)
  /\ bpc' = "get_ret"
  /\ UNCHANGED << accessToken, call, tokErr, contents, tokStatus, tokBefore,
                  lastGood, mainVars, detVars >>

\* the caller takes the result; the next call may start
GetReturn ==
  /\ bpc = "get_ret"
  /\ bpc' = "idle"
  /\ UNCHANGED << accessToken, call, tokErr, contents, reqs, status, ret,
                  tokStatus, tokBefore, sentWith, lastGood, mainVars, detVars >>

(* ---------------------------------------------------------------------- *)
(* EventDetector.h: EventBuilder, QREvent, ActivityEvent                   *)
(* ---------------------------------------------------------------------- *)
\* the frames of a stream are numbered 1..MaxFrame
MaxFrame == 16

\* the configured number of consecutive missed frames that ends a marker
MissTolerance == 2

\* an interval bound that is not set (the interval is open)
NoFrame == -1

\* the arguments ActivityEvent is constructed with: (id, start, end)
ActivityArgs == {<< 1, 5, 9 >>, << 2, 3, 3 >>}

NoObs == [torn |-> FALSE, val |-> << >>]

\* no detector is constructed
DetIdle ==
  /\ dkind = "none"
  /\ dstate = "Idle"
  /\ _start_frame = NoFrame
  /\ _end_frame = NoFrame
  /\ payload = "none"
  /\ id_ = 0
  /\ _mutex = "free"
  /\ misses = 0
  /\ cursor = 0
  /\ input = "none"
  /\ spc = "idle"
  /\ op = "none"
  /\ derr = "none"
  /\ rpc = "idle"
  /\ racc = "none"
  /\ robs = NoObs
  /\ rcur = 0
  /\ firstDet = NoFrame
  /\ runLast = NoFrame
  /\ external = FALSE

\* QREvent(), or ActivityEvent(id, start, end)
DetInit ==
  /\ \/ /\ dkind = "Marker"
        /\ id_ = 0
        /\ _start_frame = NoFrame
        /\ _end_frame = NoFrame
     \/ /\ dkind = "Activity"
        /\ \E args \in ActivityArgs :
             /\ id_ = args[1]
             /\ _start_frame = args[2]
             /\ _end_frame = args[3]
  /\ dstate = "Idle"
  /\ payload = "none"
  /\ _mutex = "free"
  /\ misses = 0
  /\ cursor = 0
  /\ input = "none"
  /\ spc = "idle"
  /\ op = "none"
  /\ derr = "none"
  /\ rpc = "idle"
  /\ racc = "none"
  /\ robs = NoObs
  /\ rcur = 0
  /\ firstDet = NoFrame
  /\ runLast = NoFrame
  /\ external = FALSE

\* the members a call works on
Members ==
  [dstate |-> dstate, start |-> _start_frame, end |-> _end_frame,
   payload |-> payload, misses |-> misses, err |-> "none"]

\* (variant: the end bound is excluded)
InRangeHalfOpen(start, end, c) == start <= c /\ c < end

\* the cursor lies within [start, end], both inclusive
InRange(start, end, c) == start <= c /\ c <= end

\* (variant: the marker closes on the first missed frame)
CloseAfterFirst(m) == m >= 1

\* the marker closes after the configured number of consecutive misses
CloseAfter(m) == m >= MissTolerance

\* StartEvent: Idle -> Active; a marker opens its interval at the frame,
\* an activity keeps the interval it was constructed with
StartEvent(kind, st, frame) ==
  IF st.dstate # "Idle" THEN [st EXCEPT !.err = "DoubleStart"]
  ELSE IF kind = "Marker"
       THEN [st EXCEPT !.dstate = "Active", !.start = frame, !.end = NoFrame]
       ELSE [st EXCEPT !.dstate = "Active"]

\* (variant: EndEvent on an Idle detector returns silently)
EndEventSilent(kind, st, frame) ==
  IF st.dstate = "Idle" THEN st
  ELSE IF st.dstate = "Closed" THEN [st EXCEPT !.err = "DoubleEnd"]
  ELSE IF kind = "Marker"
       THEN [st EXCEPT !.dstate = "Closed", !.end = frame]
       ELSE [st EXCEPT !.dstate = "Closed"]

\* EndEvent: Active -> Closed; on an Idle detector it raises PrematureEnd
\* and on a Closed one DoubleEnd, changing nothing
EndEvent(kind, st, frame) ==
  IF st.dstate = "Idle" THEN [st EXCEPT !.err = "PrematureEnd"]
  ELSE IF st.dstate = "Closed" THEN [st EXCEPT !.err = "DoubleEnd"]
  ELSE IF kind = "Marker"
       THEN [st EXCEPT !.dstate = "Closed", !.end = frame]
       ELSE [st EXCEPT !.dstate = "Closed"]

\* QREvent::CheckFrame on the frame at the cursor
QRCheckFrame(st, in, frame) ==
  IF st.dstate = "Closed" THEN st
  ELSE IF in = "hit"
       THEN LET s1 == IF st.dstate = "Idle"
                        THEN StartEvent("Marker", st, frame) ELSE st
            IN  [s1 EXCEPT !.payload = "geo", !.misses = 0]
  ELSE IF st.dstate = "Idle" THEN st
  ELSE IF in = "eos" THEN EndEvent("Marker", st, frame)
  ELSE LET s1 == [st EXCEPT !.misses = st.misses + 1]
       IN  IF CloseAfter(s1.misses)
             THEN EndEvent("Marker", s1, frame) ELSE s1

\* ActivityEvent::CheckFrame on the frame at the cursor
ActivityCheckFrame(st, in, frame) ==
  IF st.dstate = "Closed" THEN st
  ELSE IF in = "eos"
       THEN IF st.dstate = "Active"
              THEN EndEvent("Activity", st, frame) ELSE st
  ELSE IF InRange(st.start, st.end, frame)
       THEN IF st.dstate = "Idle"
              THEN StartEvent("Activity", st, frame) ELSE st
  ELSE IF st.dstate = "Active" THEN EndEvent("Activity", st, frame)
  ELSE st

CheckFrame(kind, st, in, frame) ==
  IF kind = "Marker" THEN QRCheckFrame(st, in, frame)
  ELSE ActivityCheckFrame(st, in, frame)

\* what the call in progress leaves in the members
Pending ==
  IF op = "CheckFrame" THEN CheckFrame(dkind, Members, input, cursor)
  ELSE EndEvent(dkind, Members, cursor)

\* what a frame can hold: only a marker looks for a code
Inputs(kind) ==
  IF kind = "Marker" THEN {"hit", "miss", "eos"} ELSE {"miss", "eos"}

\* the frame loop reads the next frame, or finds the stream ended, and
\* calls CheckFrame
Feed ==
  /\ dkind # "none"
  /\ spc = "idle"
  /\ input # "eos"
  /\ \E in \in Inputs(dkind) :
       /\ in # "eos" => cursor < MaxFrame
       /\ input' = in
       /\ cursor' = IF in = "eos" THEN cursor ELSE cursor + 1
       /\ firstDet' = IF in = "hit" /\ firstDet = NoFrame
                        THEN cursor + 1 ELSE firstDet
       /\ runLast' = IF in = "hit" /\ dstate # "Closed"
                       THEN cursor + 1 ELSE runLast
  /\ op' = "CheckFrame"
  /\ spc' = "call"
  /\ derr' = "none"
  /\ UNCHANGED << dkind, dstate, _start_frame, _end_frame, payload, id_,
                  _mutex, misses, rpc, racc, robs, rcur, external,
                  mainVars, boxVars >>

\* EndEvent is called on the detector from outside CheckFrame
CallEndEvent ==
  /\ dkind # "none"
  /\ spc = "idle"
  /\ op' = "EndEvent"
  /\ spc' = "call"
  /\ derr' = "none"
  /\ external' = TRUE
  /\ UNCHANGED << dkind, dstate, _start_frame, _end_frame, payload, id_,
                  _mutex, misses, cursor, input, rpc, racc, robs, rcur,
                  firstDet, runLast, mainVars, boxVars >>

\* the call takes the detector's lock
ScanLock ==
  /\ spc = "call"
  /\ _mutex = "free"
  /\ _mutex' = "scanner"
  /\ spc' = "locked"
  /\ UNCHANGED << dkind, dstate, _start_frame, _end_frame, payload, id_,
                  misses, cursor, input, op, derr, rpc, racc, robs, rcur,
                  firstDet, runLast, external,
                  mainVars, boxVars >>

\* the call writes the members, releases the lock and returns or raises
ScanBody ==
  /\ spc = "locked"
  /\ LET st == Pending
     IN  /\ dstate' = st.dstate
         /\ _start_frame' = st.start
         /\ _end_frame' = st.end
         /\ payload' = st.payload
         /\ misses' = st.misses
         /\ derr' = st.err
  /\ _mutex' = "free"
  /\ spc' = "idle"
  /\ UNCHANGED << dkind, id_, cursor, input, op, rpc, racc, robs, rcur,
                  firstDet, runLast, external,
                  mainVars, boxVars >>

\* the accessors of a detector
Accessors(kind) ==
  IF kind = "Marker" THEN {"GetRange", "GetAsJSON", "DetectedQR"}
  ELSE {"GetRange", "GetAsJSON", "IsActive"}

\* an accessor can take _mutex only if it is not a const member: _mutex
\* is not mutable
Locks(acc) == acc = "GetAsJSON"

\* what an accessor computes from the members
Observe(acc) ==
  IF acc = "GetRange" THEN << _start_frame, _end_frame >>
  ELSE IF acc = "DetectedQR" THEN payload # "none"
  ELSE IF acc = "IsActive" THEN InRange(_start_frame, _end_frame, cursor)
  ELSE << dkind, _start_frame, _end_frame, payload >>

\* the scanning thread is inside a call that changes the interval state
Writing ==
  /\ spc = "locked"
  /\ << Pending.start, Pending.end, Pending.payload >>
       # << _start_frame, _end_frame, payload >>

\* the reporting thread enters an accessor
ReadCall ==
  /\ dkind # "none"
  /\ rpc = "idle"
  /\ \E acc \in Accessors(dkind) :
       /\ racc' = acc
       /\ IF Locks(acc)
            THEN _mutex = "free" /\ _mutex' = "reader"
            ELSE _mutex' = _mutex
  /\ rpc' = "read"
  /\ UNCHANGED << dkind, dstate, _start_frame, _end_frame, payload, id_,
                  misses, cursor, input, spc, op, derr, robs, rcur,
                  firstDet, runLast, external,
                  mainVars, boxVars >>

\* the accessor reads the members; a read that races with a write may see
\* anything
ReadDo ==
  /\ rpc = "read"
  /\ \E torn \in (IF Writing /\ _mutex # "reader"
                    THEN BOOLEAN ELSE {FALSE}) :
       robs' = [torn |-> torn,
                val |-> IF torn THEN << >> ELSE Observe(racc)]
  /\ rcur' = IF racc = "IsActive" THEN cursor ELSE 0
  /\ _mutex' = IF _mutex = "reader" THEN "free" ELSE _mutex
  /\ rpc' = "ret"
  /\ UNCHANGED << dkind, dstate, _start_frame, _end_frame, payload, id_,
                  misses, cursor, input, spc, op, derr, racc,
                  firstDet, runLast, external,
                  mainVars, boxVars >>

\* the accessor returns
ReadReturn ==
  /\ rpc = "ret"
  /\ rpc' = "idle"
  /\ racc' = "none"
  /\ robs' = NoObs
  /\ rcur' = 0
  /\ UNCHANGED << dkind, dstate, _start_frame, _end_frame, payload, id_,
                  _mutex, misses, cursor, input, spc, op, derr,
                  firstDet, runLast, external,
                  mainVars, boxVars >>

(* ---------------------------------------------------------------------- *)
(* Specifications                                                          *)
(* ---------------------------------------------------------------------- *)
\* a thread of the batch runs
Thread == \E k \in 1..MaxVideos : ThreadRun(k)

Init == MainInit /\ BoxInit /\ DetIdle

\* main() of findFish, either build
Next ==
  \/ Scan
  \/ Filter
  \/ While
  \/ SeqFor
  \/ SeqConstruct
  \/ SeqProcess
  \/ SeqRemove
  \/ SeqInc
  \/ ThrResize
  \/ ThrFor
  \/ ThrNew
  \/ ThrSpawn
  \/ Thread
  \/ ThrJoin
  \/ ThrIf
  \/ ThrRemove

Spec == Init /\ [][Next]_vars

\* the steps of the main thread; each excludes the others by pc
MainThread ==
  \/ Scan
  \/ Filter
  \/ While
  \/ SeqFor
  \/ SeqConstruct
  \/ SeqProcess
  \/ SeqRemove
  \/ SeqInc
  \/ ThrResize
  \/ ThrFor
  \/ ThrNew
  \/ ThrSpawn
  \/ ThrJoin
  \/ ThrIf
  \/ ThrRemove

\* main() with every thread of the process scheduled: the main thread
\* takes the step it is at, and a started thread runs ProcessVideos to
\* its end (a started thread stays runnable until it has run)
SpecFair ==
  /\ Init
  /\ [][Next]_vars
  /\ WF_vars(MainThread)
  /\ WF_vars(Thread)

BoxSpecInit == MainIdle /\ BoxInit /\ DetIdle

\* calls of UploadFile on one Box
BoxNext ==
  \/ UploadCall
  \/ UploadToken
  \/ UploadRead
  \/ UploadPost
  \/ UploadReturn
  \/ GetCall
  \/ GetToken
  \/ GetRequest
  \/ GetReturn

SpecBox == BoxSpecInit /\ [][BoxNext]_vars

DetSpecInit == MainIdle /\ BoxInit /\ DetInit

\* one detector, the frame loop that feeds it and a reporting thread
DetNext ==
  \/ Feed
  \/ CallEndEvent
  \/ ScanLock
  \/ ScanBody
  \/ ReadCall
  \/ ReadDo
  \/ ReadReturn

SpecDet == DetSpecInit /\ [][DetNext]_vars

(* ---------------------------------------------------------------------- *)
(* Properties of main()                                                    *)
(* ---------------------------------------------------------------------- *)
Throwing == {"ctor_throw", "process_throw"}
Failing == Throwing \cup {"fail"}

OnDisk(path) == EntryOf(path) \in videoDir

\* the indices the sequential loop and the THREADED loop visit for n videos
RECURSIVE SeqIndices(_, _)
SeqIndices(idx, n) ==
  IF LoopCond(idx, n) THEN {idx} \cup SeqIndices(SeqStep(idx), n) ELSE {}

RECURSIVE ThrIndices(_, _)
ThrIndices(idx, n) ==
  IF LoopCond(idx, n) THEN {idx} \cup ThrIndices(ThrStep(idx), n) ELSE {}

\* C1: in the sequential build, once a job's loop body has ended, its two
\* sources have been removed (and are off the disk) if and only if the
\* Processor was constructed, ProcessVideos returned and Success is true;
\* otherwise neither was removed and both are on disk. No source of a job
\* still at work has been removed.
SeqRemovedIffSuccess ==
  ~THREADED =>
    \A k \in 1..Len(jobs) :
      IF jobs[k].finished /\ jobs[k].state = "ok"
      THEN /\ {jobs[k].a, jobs[k].b} \subseteq removed
           /\ ~OnDisk(jobs[k].a) /\ ~OnDisk(jobs[k].b)
      ELSE /\ {jobs[k].a, jobs[k].b} \cap removed = {}
           /\ OnDisk(jobs[k].a) /\ OnDisk(jobs[k].b)

\* a batch of the sequential build with a successful job, a job whose
\* Success is false and a job that threw, all ended
SeqRemovedIffSuccessWitness ==
  /\ ~THREADED
  /\ \E k, m \in 1..Len(jobs) :
       /\ jobs[k].finished /\ jobs[k].state = "ok"
       /\ jobs[m].finished /\ jobs[m].state \in Failing

\* C2: in the THREADED build, after a batch, every removed file is an input
\* of a job of that batch that ended with Success = true.
ThrRemovedOnlyOnSuccess ==
  (THREADED /\ pc = "while") =>
    \A f \in removed :
      \E k \in 1..Len(jobs) :
        f \in {jobs[k].a, jobs[k].b} /\ jobs[k].state = "ok"

\* C3: in the THREADED build, while files are being removed (and once one
\* has been), no thread of the batch is running and none is left to join.
ThrRemoveAfterJoin ==
  (THREADED /\ (pc \in {"thr_if", "thr_remove"} \/ removed # {})) =>
    /\ \A k \in 1..Len(jobs) : jobs[k].state # "running"
    /\ \A k \in 1..Len(threads) : threads[k] # "joinable"

\* files have been removed after a batch of at least two threads
ThrRemoveAfterJoinWitness ==
  /\ THREADED
  /\ removed # {}
  /\ Len(jobs) >= 2
  /\ \A k \in 1..Len(jobs) : threads[k] = "joined"

\* C4: in the THREADED build a failing job (constructor or ProcessVideos
\* throws, or Success is false) has none of its sources removed, and does
\* not stop the process: no sibling is cut short and every pair of the
\* batch gets its job.
ThrFailureIsolated ==
  THREADED =>
    \A k \in 1..Len(jobs) :
      jobs[k].state \in Failing =>
        /\ {jobs[k].a, jobs[k].b} \cap removed = {}
        /\ pc # "terminated"

\* C5: in the sequential build a throwing job does not stop the batch: the
\* process is never terminated, at the end of the batch loop every index
\* the loop selects (0, 2, 4, ... below size / 2) has had its job, each
\* constructed and processed unless it threw itself, and the sources of a
\* job that threw are on disk.
SeqBatchContinues ==
  ~THREADED =>
    /\ pc # "terminated"
    /\ pc = "while" =>
         /\ Len(jobs) = ((Len(video_files) \div 2) + 1) \div 2
         /\ \A k \in 1..Len(jobs) :
              /\ jobs[k].first = 2 * (k - 1)
              /\ jobs[k].finished
              /\ jobs[k].state \in {"ok", "fail"} \cup Throwing
    /\ \A k \in 1..Len(jobs) :
         jobs[k].state \in Throwing => OnDisk(jobs[k].a) /\ OnDisk(jobs[k].b)

\* a batch of the sequential build ended, its first job threw and a later
\* job was processed
SeqBatchContinuesWitness ==
  /\ ~THREADED
  /\ pc = "while"
  /\ Len(jobs) >= 2
  /\ jobs[1].state \in Throwing
  /\ jobs[2].state \in {"ok", "fail"}

\* the number of jobs of the batch the video of index v is an input of
TimesPaired(v) ==
  Cardinality({k \in 1..Len(jobs) : v \in {jobs[k].first, jobs[k].second}})

\* C6: at the end of the pairing loop of a batch, no video of the list is an
\* input of two jobs, and at most one video is an input of none.
PairedExactlyOnce ==
  pc = "while" =>
    /\ \A v \in 0..(Len(video_files) - 1) : TimesPaired(v) <= 1
    /\ Cardinality({v \in 0..(Len(video_files) - 1) : TimesPaired(v) = 0}) <= 1

\* C7: right after the exclusion step, no video left in the list has a name
\* containing the identifier of an artifact of static/video-info/.
ExcludedEveryMatch ==
  pc \in {"seq_for", "thr_resize", "thr_for"} =>
    \A v \in Range(video_files) :
      \A j \in Range(json_files) : Find(v, Ident(j)) = NPOS

\* C8 (as claimed): for some number of videos, one of the pairing loops
\* reaches an index whose second index the modulo wraps to 0 (stated at the
\* end of a batch, over every number of videos the directory can hold).
WrapsForSomeCount ==
  pc = "while" =>
    \E n \in 1..MaxVideos :
      \E idx \in SeqIndices(0, n) \cup ThrIndices(0, n) :
        SecondIndex(idx, n) = 0

\* C8 (amended): the sequential loop advances by the pair size and the
\* THREADED loop by one, and the modulo never wraps: the second index of
\* every job is the index after the first, below the size of the list, so
\* no job pairs a video with the first video of the list as its second.
NoWrapAround ==
  \A k \in 1..Len(jobs) :
    /\ jobs[k].first = IF THREADED THEN k - 1 ELSE 2 * (k - 1)
    /\ jobs[k].second = jobs[k].first + 1
    /\ jobs[k].second < Len(video_files)
    /\ jobs[k].b # video_files[1]

\* the last job of a batch over an odd number of videos, at least three
NoWrapAroundWitness ==
  /\ pc = "while"
  /\ Len(video_files) % 2 = 1
  /\ Len(video_files) >= 3
  /\ Len(jobs) >= 1

\* C16: in the build without THREADED no thread is created and no job runs
\* on a thread, and the jobs run one at a time: every job but the last
\* created has ended its loop body (ProcessVideos and the conditional
\* removal), and when a Processor is about to be constructed every job of
\* the batch has.
SeqOneAtATime ==
  ~THREADED =>
    /\ threads = << >>
    /\ \A k \in 1..Len(jobs) : jobs[k].state # "running"
    /\ \A k \in 1..(Len(jobs) - 1) : jobs[k].finished
    /\ pc \in {"seq_for", "seq_ctor", "seq_inc", "while"} =>
         \A k \in 1..Len(jobs) : jobs[k].finished
    /\ \A k \in 1..Len(jobs) :
         (jobs[k].finished /\ jobs[k].state = "ok") =>
           {jobs[k].a, jobs[k].b} \subseteq removed

\* the second job of a batch of the default build is being processed, the
\* first has succeeded and its sources are removed
SeqOneAtATimeWitness ==
  /\ ~THREADED
  /\ pc = "seq_process"
  /\ Len(jobs) = 2
  /\ jobs[1].state = "ok"
  /\ {jobs[1].a, jobs[1].b} \subseteq removed

\* a job of the batch has failed, or the process was terminated
SomeJobFailed ==
  \/ pc = "terminated"
  \/ \E k \in 1..Len(jobs) : jobs[k].state \in Failing

\* C17: with no artifact at start-up and every job succeeding, main
\* eventually sees an empty video directory and returns (either a job
\* fails at some point, or main reaches its return).
MainTerminates ==
  (jsonDir = {}) => <>(SomeJobFailed \/ pc = "done")

(* ---------------------------------------------------------------------- *)
(* Properties of the Box client                                            *)
(* ---------------------------------------------------------------------- *)
\* the call has sent its upload request
UploadSent == \E k \in 1..Len(reqs) : reqs[k].url = "upload"

\* C9: UploadFile returns a nil error exactly when the contents of the file
\* were sent and the server answered 200.
UploadReportsTruthfully ==
  bpc = "up_ret" =>
    (ret = "nil" <=> (UploadSent /\ contents = "data" /\ status = 200))

\* C10: the upload request of a call is sent only when RequestAccessToken of
\* the same call returned without error.
UploadAfterTokenCreated ==
  UploadSent => ~tokErr

\* RequestAccessToken of the call in progress has returned
TokenReturned == bpc \in {"up_read", "get_req"}

\* C11: when RequestAccessToken has returned a nil error, box.accessToken
\* is a non-empty token and the token response had status 200.
TokenValidOnNil ==
  (TokenReturned /\ ~tokErr) => (accessToken \in Tokens /\ tokStatus = 200)

\* C18: when RequestAccessToken has returned a non-nil error,
\* box.accessToken is what it was before the call.
TokenKeptOnError ==
  (TokenReturned /\ tokErr) => accessToken = tokBefore

\* RequestAccessToken failed on the response of the endpoint (transport
\* failure or undecodable response) while the Box held a token
TokenKeptOnErrorWitness ==
  /\ TokenReturned
  /\ tokErr
  /\ Len(reqs) = 1
  /\ tokBefore \in Tokens
  /\ accessToken = tokBefore

\* C19: every request carries an Authorization header if and only if
\* box.accessToken was non-empty when it was issued, the header is
\* "Bearer " and that token; and the request a call issues after its token
\* refresh failed carries the token of the last refresh that returned nil
\* (no header when there has been none).
BearerIsCurrentToken ==
  /\ Len(sentWith) = Len(reqs)
  /\ \A k \in 1..Len(reqs) :
       /\ (reqs[k].auth # << >>) <=> (sentWith[k] # "")
       /\ reqs[k].auth # << >> => reqs[k].auth = << "Bearer", sentWith[k] >>
       /\ (tokErr /\ reqs[k].url \in {"upload", "file"}) =>
            /\ sentWith[k] = lastGood
            /\ reqs[k].auth = IF lastGood = "" THEN << >>
                              ELSE << "Bearer", lastGood >>

\* GetFileInfo has sent its request after a failed refresh: once with the
\* token of an earlier refresh, once with no refresh ever having succeeded
BearerIsCurrentTokenWitness ==
  /\ bpc = "get_ret"
  /\ tokErr
  /\ lastGood \in Tokens
  /\ \E k \in 1..Len(reqs) :
       reqs[k].url = "file" /\ reqs[k].auth = << "Bearer", lastGood >>

(* ---------------------------------------------------------------------- *)
(* Claims on the event detectors                                           *)
(* ---------------------------------------------------------------------- *)
\* C12: every read of a detector's interval state (_start_frame,
\* _end_frame, payload) by an accessor happens while the reading thread
\* holds the detector's mutex, and no accessor returns a value it read
\* while the scanning thread was updating that state.
AccessorsUnderLock ==
  /\ rpc = "read" => _mutex = "reader"
  /\ rpc = "ret" => ~robs.torn

\* C13: EndEvent on a detector that is still Idle raises the
\* invariant-violation error (PrematureEnd) and leaves the state and the
\* interval as they were; it neither returns silently nor closes the
\* interval.
EndEventOnIdleRaises ==
  [][(spc = "locked" /\ op = "EndEvent" /\ dstate = "Idle" /\ spc' = "idle")
       => /\ derr' = "PrematureEnd"
          /\ dstate' = "Idle"
          /\ UNCHANGED << _start_frame, _end_frame, payload >>]_vars

EndEventOnIdleRaisesWitness ==
  /\ spc = "idle"
  /\ op = "EndEvent"
  /\ derr = "PrematureEnd"
  /\ dstate = "Idle"
  /\ _start_frame = NoFrame
  /\ _end_frame = NoFrame

\* C14: IsActive() of ActivityEvent(id, start, end) returns true exactly
\* when the frame cursor it reads lies in [start, end]; for (1, 5, 9) that
\* is for the cursors 5..9 and for no other.
IsActiveExactly ==
  (rpc = "ret" /\ racc = "IsActive") =>
    /\ ~robs.torn
    /\ \A args \in ActivityArgs :
         id_ = args[1] =>
           (robs.val <=> (args[2] <= rcur /\ rcur <= args[3]))
    /\ id_ = 1 => (robs.val <=> rcur \in 5..9)

IsActiveExactlyWitness ==
  /\ rpc = "ret"
  /\ racc = "IsActive"
  /\ id_ = 1
  /\ rcur = 9
  /\ ~robs.torn
  /\ robs.val = TRUE

\* C15: a marker detector that is only fed frames opens its interval at
\* the first frame that holds a code, keeps it open while fewer than the
\* configured number of consecutive frames missed, and closes it at the
\* frame that completes that number of misses or at the end of the stream:
\* with codes on frames 10 to 14 the one interval has start 10 and an end
\* from 14 to 14 + MissTolerance.
MarkerInterval ==
  (dkind = "Marker" /\ ~external) =>
    /\ (spc = "idle" /\ dstate = "Idle") => firstDet = NoFrame
    /\ dstate # "Idle" => _start_frame = firstDet
    /\ (spc = "idle" /\ dstate = "Active") =>
         /\ _end_frame = NoFrame
         /\ cursor - runLast < MissTolerance
    /\ dstate = "Closed" =>
         /\ runLast <= _end_frame
         /\ _end_frame <= runLast + MissTolerance
         /\ \/ _end_frame = runLast + MissTolerance
            \/ input = "eos" /\ _end_frame = cursor
    /\ (dstate = "Closed" /\ firstDet = 10 /\ runLast = 14) =>
         /\ _start_frame = 10
         /\ 14 <= _end_frame
         /\ _end_frame <= 14 + MissTolerance

MarkerIntervalWitness ==
  /\ dkind = "Marker"
  /\ ~external
  /\ dstate = "Closed"
  /\ firstDet = 10
  /\ runLast = 14
  /\ _start_frame = 10
  /\ _end_frame = 14 + MissTolerance
  /\ input # "eos"

====
